---- MODULE Spec2Model ----
(***************************************************************************)
(* Model of the generic entity-management controller                       *)
(* (src/src/hooks/useEntityManagement.ts) as the Inquilinos screen         *)
(* (src/src/components/Inquilinos.tsx) configures it, together with the    *)
(* CRUD collaborator (ApiService) answering its calls.                     *)
(*                                                                         *)
(* JavaScript runs handlers to their next await without interruption, so   *)
(* each action below is one such run: a user event handler up to the       *)
(* network call it issues, or the continuation of an async handler from    *)
(* the resolution of the awaited call to the next call or to the end.      *)
(* The server answering a request is a separate step from the browser      *)
(* delivering the answer, so answers may be delivered in any order.        *)
(***************************************************************************)
EXTENDS Integers, Sequences, FiniteSets, TLC

\* ------------------------------------------------------------------ bounds
\* Number of entities the server ever creates (ids 1..MaxId, never reused).
MaxId == 2
\* Distinct non-empty values a form field / entity name can take (1..MaxName).
MaxName == 1
\* Number of handleSubmit / handleDelete runs the user starts after the mount.
MaxHandlers == 2
\* Number of async handlers (loadData, handleSubmit, handleDelete) that may be
\* in flight together; the user starts no further one while that many run.
MaxInFlight == 2
\* Longest search term the user types.
MaxTermLen == 2
\* Number of entities the server holds when a screen of SpecView or SpecSel
\* mounts.
MaxRows == 3
\* Number of entities the server holds when the page of SpecTable mounts.
MaxTableRows == 2
\* Number of columns of the table, the first ones Inquilinos configures.
MaxColumns == 2
\* Largest maxLength tried on a cell, besides the configured ones.
MaxCellLen == 2
\* Number of login, register and logout calls in flight together.
MaxAuthCalls == 2

\* ------------------------------------------------------- hook configuration
\* error slot: useState<string | null>(null)
NoError == "null"
loadError == "Error al cargar los inquilinos"
saveError == "Error al guardar el inquilino"
deleteError == "Error al eliminar el inquilino"
\* A string is the sequence of its characters; a name the user types in Spec
\* is told by its length only.
NameOfLen(n) == [i \in 1..n |-> "a"]
\* initialFormData: { nombre: '', ... }, every field the empty string
initialFormData == [nombre |-> <<>>]

\* The drafts the form can hold: InquilinoFormData, told by its nombre
FormVals == {[nombre |-> NameOfLen(n)] : n \in 0..MaxName}
Ids == 1..MaxId
Slots == 1..(MaxHandlers + 1)

\* An entity is a record with the fields the controller reads: id and nombre.
\* editingEntity = null is the record NoEntity (real ids start at 1).
NoEntity == [id |-> 0, nombre |-> <<>>]

getEntityId(e) == e.id
getEntityName(e) == e.nombre
\* handleEditInquilino's mapper: copies the editable fields of the entity
mapEntityToFormData(e) == [nombre |-> e.nombre]

\* contratoFile = null, and the file the user picks in the Alquileres form
NoFile == 0
SampleFile == 1

\* `¿Estás seguro de que quieres eliminar ${entityName}?`
ConfirmText(entityName) == <<"¿Estás seguro de que quieres eliminar ", entityName, "?">>

VARIABLES
  db,            \* server: the stored entities, in insertion order
  nextId,        \* server: id given to the next created entity
  entities,      \* useState<T[]>([])
  loading,       \* useState(true)
  error,         \* useState<string | null>(null)
  showForm,      \* useState(false)
  editingEntity, \* useState<T | null>(null)
  formData,      \* useState<TFormData>(initialFormData)
  ops,           \* the async handlers in flight, one per slot
  lastConfirm,   \* the last window.confirm dialog: its text and the answer
  searchTerm,    \* useState('')
  viewingEntity, \* useState<T | null>(null)
  properties,         \* Properties: useState<Property[]>([])
  selectedProperties, \* Properties: useState<number[]>([])
  visibleColumns,     \* EntityTable: useState<Set<string>>(all column keys)
  showColumnFilter,   \* EntityTable: useState(false)
  openMenuId,         \* EntityTable: useState<number | null>(null)
  pointer,            \* the mouse: the last press, its target and its phase
  contratoFile,       \* Alquileres: useState<File | null>(null)
  localStorage,       \* window.localStorage: the items 'user' and 'remember'
  pathname,           \* the router's location.pathname
  screen,             \* the element the matched route has rendered
  authCalls           \* the login, register and logout calls in flight

vars == <<db, nextId, entities, loading, error, showForm, editingEntity,
          formData, ops, lastConfirm, searchTerm, viewingEntity,
          properties, selectedProperties,
          visibleColumns, showColumnFilter, openMenuId, pointer,
          contratoFile, localStorage, pathname, screen, authCalls>>

\* The state of the search box and the detail view, and of the Properties
\* screen; the handlers below that do not name them leave them alone.
viewVars == <<searchTerm, viewingEntity>>
propVars == <<properties, selectedProperties>>
\* The state of the EntityTable the Inquilinos page renders, and the mouse
tableVars == <<visibleColumns, showColumnFilter, openMenuId, pointer>>
\* The state of the router and of the session, and the file chosen in the
\* form of the Alquileres page
routeVars == <<localStorage, pathname, screen, authCalls>>
appVars == <<contratoFile, routeVars>>

\* --------------------------------------------------------------- helpers
IdsOf(seq) == {seq[i].id : i \in 1..Len(seq)}
ElemsOf(seq) == {seq[i] : i \in 1..Len(seq)}

NoResp == [st |-> "none", items |-> <<>>]

\* A slot of ops.  h: the handler that runs; pc: what call it awaits;
\* kind/id/data: the create/update/delete call it issued with its arguments;
\* file: the contract file sent with the call (Alquileres);
\* resp: the answer to the outstanding call, once the server has given it;
\* callSt: how the create/update/delete call ended; newId: the id the
\* server gave the created entity; ncall/nload: calls issued so far.
Idle == [h |-> "idle", pc |-> "idle", kind |-> "none", id |-> 0,
         data |-> initialFormData, file |-> NoFile,
         resp |-> NoResp, callSt |-> "none", newId |-> 0,
         ncall |-> 0, nload |-> 0]

\* Slots are handed out in the order the handlers start and are not reused;
\* a handler that has run to its end leaves Done in its slot.
Done == [Idle EXCEPT !.pc = "done"]
InFlight == {s \in Slots : ops[s].pc \in {"call", "load"}}
FreeSlot(s) ==
  /\ ops[s].pc = "idle"
  /\ \A t \in Slots : t < s => ops[t].pc # "idle"
  /\ Cardinality(InFlight) < MaxInFlight

\* ------------------------------------------------------ search and filter
\* The characters of names and search terms: a blank, a letter in both
\* cases and a second letter.
Chars == {" ", "a", "A", "b"}
Terms == UNION {[1..n -> Chars] : n \in 0..MaxTermLen}

\* String.prototype.toLowerCase
toLowerCase(str) == [i \in 1..Len(str) |-> IF str[i] = "A" THEN "a" ELSE str[i]]

\* String.prototype.trim: drops the leading and the trailing blanks
RECURSIVE trimStart(_)
trimStart(str) ==
  IF Len(str) > 0 /\ Head(str) = " " THEN trimStart(Tail(str)) ELSE str
RECURSIVE trimEnd(_)
trimEnd(str) ==
  IF Len(str) > 0 /\ str[Len(str)] = " "
    THEN trimEnd(SubSeq(str, 1, Len(str) - 1))
    ELSE str
trim(str) == trimEnd(trimStart(str))

\* String.prototype.includes
includes(str, sub) ==
  \E i \in 0..(Len(str) - Len(sub)) : SubSeq(str, i + 1, i + Len(sub)) = sub

\* Inquilinos filterFunction: inquilino.nombre.toLowerCase().includes(term)
filterFunction(entity, term) == includes(toLowerCase(entity.nombre), term)

\* const term = searchTerm.toLowerCase(): the term handed to filterFunction
filterTerm(q) == toLowerCase(q)

\* The useMemo body of filteredEntities for the collection C and the search
\* term q: all of C when q is blank (!searchTerm.trim()), else the entities
\* the predicate accepts for filterTerm(q), in C's order
filteredOf(C, q) ==
  IF trim(q) = <<>>
    THEN C
    ELSE SelectSeq(C, LAMBDA e : filterFunction(e, filterTerm(q)))

\* filteredEntities = useMemo(..., [entities, searchTerm, filterFunction])
filteredEntities == filteredOf(entities, searchTerm)

\* --------------------------------------------------- EntityTable: state
\* The columns Inquilinos configures: key and maxLength
columns == << [key |-> "nombre", maxLength |-> 25],
              [key |-> "email", maxLength |-> 25],
              [key |-> "telefono", maxLength |-> 35],
              [key |-> "documento", maxLength |-> 35] >>
ColumnKeys == {columns[i].key : i \in 1..MaxColumns}

\* openMenuId = null
NoMenu == 0

\* What the mouse can press: the menu trigger of a row, an item of a row's
\* action menu, the column-filter button, the checkbox of a column in the
\* column-filter panel, or anything else on the page.
Target(kind, id, col) == [kind |-> kind, id |-> id, col |-> col]
NoTarget == Target("none", 0, "")
Elsewhere == Target("outside", 0, "")
\* No button is down.  phase: "down" from the mousedown to the click;
\* heard: whether the document listener handleClickOutside was attached
\* when the mousedown happened.
NoPointer == [target |-> NoTarget, phase |-> "up", heard |-> FALSE]

\* useState initial values of EntityTable
InitialVisibleColumns == ColumnKeys
EntityTableInit ==
  /\ visibleColumns = InitialVisibleColumns
  /\ showColumnFilter = FALSE
  /\ openMenuId = NoMenu
  /\ pointer = NoPointer

\* ------------------------------------------------ the session and the router
\* localStorage.getItem(key) === null
NoItem == <<>>
\* localStorage.setItem('remember', 'true')
RememberItem == <<"true">>
\* JSON.stringify(userData) and JSON.parse(userStr): the string carries the
\* value and parse gives it back; parse throws on a string that is no JSON
JSONstringify(value) == <<"json", value>>
IsJSON(str) == Len(str) = 2 /\ str[1] = "json"
JSONparse(str) == str[2]

\* AuthResponse; getCurrentUser() = null is the record NoUser
NoUser == [userId |-> 0, name |-> ""]
SampleUser == [userId |-> 1, name |-> "admin"]

\* ApiService.getCurrentUser over the storage given: the parsed 'user'
\* item, null when there is none or when JSON.parse throws
getCurrentUser(storage) ==
  IF storage.user # NoItem
    THEN IF IsJSON(storage.user) THEN JSONparse(storage.user) ELSE NoUser
    ELSE NoUser
\* ApiService.isAuthenticated
isAuthenticated(storage) == getCurrentUser(storage) # NoUser

\* What a route renders: an element (a screen) or <Navigate to=... replace/>
Element(name) == [kind |-> "element", to |-> "", screen |-> name]
Navigate(to) == [kind |-> "navigate", to |-> to, screen |-> ""]
\* <Routes> with no matching <Route> renders nothing
NoMatch == Element("blank")

\* The paths of the <Route>s of App, and a path none of them matches
\* (Alquileres navigates to /alquileres/{id}/pagos)
PublicPaths == {"/login", "/register"}
ContentPaths == {"/dashboard", "/propiedades", "/inquilinos", "/alquileres",
                 "/pagos", "/perfil"}
Paths == PublicPaths \cup {"/"} \cup ContentPaths \cup {"/alquileres/1/pagos"}

\* ProtectedRoute and PublicRoute around their children
ProtectedRoute(storage, children) ==
  IF ~isAuthenticated(storage) THEN Navigate("/login") ELSE children
PublicRoute(storage, path, children) ==
  IF isAuthenticated(storage) /\ (path = "/login" \/ path = "/register")
    THEN Navigate("/dashboard")
    ELSE children

\* The element of the <Route> that matches path; the screens are named by
\* their paths
RouteElement(storage, path) ==
  IF path \in PublicPaths
    THEN PublicRoute(storage, path, Element(path))
    ELSE IF path = "/"
      THEN ProtectedRoute(storage, Navigate("/dashboard"))
      ELSE IF path \in ContentPaths
        THEN ProtectedRoute(storage, Element(path))
        ELSE NoMatch

\* The render the router settles on for path: it follows <Navigate> to the
\* route that renders a screen
RECURSIVE Resolve(_, _)
Resolve(storage, path) ==
  IF RouteElement(storage, path).kind = "navigate"
    THEN Resolve(storage, RouteElement(storage, path).to)
    ELSE [pathname |-> path, screen |-> RouteElement(storage, path).screen]

\* A signed-in user on the page of path, no session call in flight, and no
\* file chosen in the Alquileres form
SignedInAt(path) ==
  /\ localStorage = [user |-> JSONstringify(SampleUser), remember |-> NoItem]
  /\ pathname = path
  /\ screen = Resolve(localStorage, path).screen
  /\ authCalls = <<>>
  /\ contratoFile = NoFile

\* Inquilinos: if (loading && inquilinos.length === 0) return <LoadingState/>
\* the page (header button, form modal, table) is rendered only otherwise.
Mounted == ~(loading /\ Len(entities) = 0)

\* The frame of a hook handler that writes loading or entities: EntityTable
\* keeps its state while the page renders it; when the page turns to
\* <LoadingState/> the table is unmounted and its next mount starts from the
\* useState initial values.
TableFrame ==
  IF ~(loading' /\ Len(entities') = 0)
    THEN UNCHANGED tableVars
    ELSE /\ visibleColumns' = InitialVisibleColumns
         /\ showColumnFilter' = FALSE
         /\ openMenuId' = NoMenu
         /\ pointer' = NoPointer

\* ------------------------------------------------------------ the server
\* POST /inquilinos
ServerCreate(data) == Append(db, [id |-> nextId, nombre |-> data.nombre])
\* PUT /inquilinos/{id}
ServerUpdate(id, data) ==
  [i \in 1..Len(db) |-> IF db[i].id = id THEN [id |-> id, nombre |-> data.nombre] ELSE db[i]]
\* DELETE /inquilinos/{id}
ServerDelete(id) == SelectSeq(db, LAMBDA e : e.id # id)

\* The server answers the create/update/delete call of slot s.  out is
\*   "ok":     HTTP 2xx with the envelope {success: true, data}
\*   "fail":   HTTP 2xx with the envelope {success: false, message, error}
\*   "reject": no usable answer (network error, timeout, HTTP 4xx/5xx):
\*             axios rejects the promise.
ServeCall(s, out) ==
  /\ ops[s].pc = "call"
  /\ ops[s].resp.st = "none"
  /\ \/ /\ out = "ok"
        /\ ops[s].kind = "create"
        /\ nextId <= MaxId
        /\ db' = ServerCreate(ops[s].data)
        /\ nextId' = nextId + 1
        /\ ops' = [ops EXCEPT ![s].resp = [st |-> "ok", items |-> <<>>],
                              ![s].newId = nextId]
     \/ /\ out = "ok"
        /\ ops[s].kind = "update"
        /\ ops[s].id \in IdsOf(db)
        /\ db' = ServerUpdate(ops[s].id, ops[s].data)
        /\ nextId' = nextId
        /\ ops' = [ops EXCEPT ![s].resp = [st |-> "ok", items |-> <<>>]]
     \/ /\ out = "ok"
        /\ ops[s].kind = "delete"
        /\ ops[s].id \in IdsOf(db)
        /\ db' = ServerDelete(ops[s].id)
        /\ nextId' = nextId
        /\ ops' = [ops EXCEPT ![s].resp = [st |-> "ok", items |-> <<>>]]
     \/ /\ out \in {"fail", "reject"}
        /\ UNCHANGED <<db, nextId>>
        /\ ops' = [ops EXCEPT ![s].resp = [st |-> out, items |-> <<>>]]
  /\ UNCHANGED <<entities, loading, error, showForm, editingEntity, formData,
                 lastConfirm>>
  /\ UNCHANGED <<viewVars, propVars, appVars, tableVars>>

\* The server answers the load call (GET /inquilinos?page=0&size=100&q=) of
\* slot s: "ok" carries {success: true, data: {items}}, the list as stored.
ServeLoad(s, out) ==
  /\ ops[s].pc = "load"
  /\ ops[s].resp.st = "none"
  /\ out \in {"ok", "fail", "reject"}
  /\ ops' = [ops EXCEPT ![s].resp =
               [st |-> out, items |-> IF out = "ok" THEN db ELSE <<>>]]
  /\ UNCHANGED <<db, nextId, entities, loading, error, showForm, editingEntity,
                 formData, lastConfirm>>
  /\ UNCHANGED <<viewVars, propVars, appVars, tableVars>>

\* -------------------------------------------------------------- loadData
\* loadData up to its await: setLoading(true); setError(null); loadEntities()
LoadDataStart(op) ==
  [op EXCEPT !.pc = "load", !.resp = NoResp, !.nload = op.nload + 1]

\* loadData after its await: the collection, the error and the loading flag
\* it leaves.  if (response.success && response.data) setEntities(items);
\* catch: setError(loadError); finally: setLoading(false)
LoadDataEntities_blank(resp) == IF resp.st = "ok" THEN resp.items ELSE <<>>
LoadDataEntities_merge(resp) ==
  IF resp.st = "ok"
    THEN entities \o SelectSeq(resp.items, LAMBDA e : e.id \notin IdsOf(entities))
    ELSE entities
LoadDataEntities_keepsLonger(resp) ==
  IF resp.st = "ok" /\ Len(resp.items) >= Len(entities) THEN resp.items ELSE entities
LoadDataEntities_appends(resp) ==
  IF resp.st = "ok" THEN entities \o resp.items ELSE entities
LoadDataEntities(resp) == IF resp.st = "ok" THEN resp.items ELSE entities
LoadDataError(resp) == IF resp.st = "reject" THEN loadError ELSE error
LoadDataLoading_noFinally(resp) == IF resp.st = "reject" THEN loading ELSE FALSE
LoadDataLoading(resp) == FALSE

\* ------------------------------------------------------------------ Init
\* State after the first render and its mount effect, which calls loadData.
Init ==
  /\ db \in {<<>>, <<[id |-> 1, nombre |-> NameOfLen(1)]>>}
  /\ nextId = Len(db) + 1
  /\ entities = <<>>
  /\ loading = TRUE
  /\ error = NoError
  /\ showForm = FALSE
  /\ editingEntity = NoEntity
  /\ formData = initialFormData
  /\ ops = [s \in Slots |-> IF s = 1
                             THEN LoadDataStart([Idle EXCEPT !.h = "load"])
                             ELSE Idle]
  /\ lastConfirm = [text |-> <<>>, answer |-> FALSE]
  /\ searchTerm = <<>>
  /\ viewingEntity = NoEntity
  /\ properties = <<>>
  /\ selectedProperties = <<>>
  /\ EntityTableInit
  /\ SignedInAt("/inquilinos")

\* -------------------------------------------------------- user handlers
\* PageHeader onButtonClick={() => setShowForm(true)}
OpenForm ==
  /\ Mounted
  /\ ~showForm
  /\ showForm' = TRUE
  /\ UNCHANGED <<db, nextId, entities, loading, error, editingEntity, formData,
                 ops, lastConfirm>>
  /\ UNCHANGED <<viewVars, propVars, appVars, tableVars>>

\* EntityFormModal onFormDataChange={setFormData}
SetFormData(v) ==
  /\ Mounted
  /\ showForm
  /\ formData # v
  /\ formData' = v
  /\ UNCHANGED <<db, nextId, entities, loading, error, showForm, editingEntity,
                 ops, lastConfirm>>
  /\ UNCHANGED <<viewVars, propVars, appVars, tableVars>>

\* The form data handleEdit sets: mapEntityToFormData(entity) when the
\* caller passes a mapper, else the entity itself (entity as TFormData)
EditFormData_ignoresMapper(e, mapper) == e
EditFormData(e, mapper) == IF mapper THEN mapEntityToFormData(e) ELSE e

\* handleEdit(entity, mapEntityToFormData?), from a row of the table;
\* mapper tells whether the caller passes a mapper
handleEdit(e, mapper) ==
  /\ Mounted
  /\ e \in ElemsOf(filteredEntities)
  /\ editingEntity' = e
  /\ formData' = EditFormData(e, mapper)
  /\ showForm' = TRUE
  /\ UNCHANGED <<db, nextId, entities, loading, error, ops, lastConfirm>>
  /\ UNCHANGED <<viewVars, propVars, appVars, tableVars>>

\* resetForm: setFormData(initialFormData); the form data it leaves
resetForm_keepsDraft == formData
resetForm == initialFormData

\* handleCancel
handleCancel_clearsSearch ==
  /\ Mounted
  /\ showForm
  /\ showForm' = FALSE
  /\ editingEntity' = NoEntity
  /\ formData' = initialFormData
  /\ searchTerm' = <<>>
  /\ UNCHANGED <<db, nextId, entities, loading, error, ops, lastConfirm,
                 viewingEntity, propVars, appVars, tableVars>>
handleCancel ==
  /\ Mounted
  /\ showForm
  /\ showForm' = FALSE
  /\ editingEntity' = NoEntity
  /\ formData' = resetForm
  /\ UNCHANGED <<db, nextId, entities, loading, error, ops, lastConfirm>>
  /\ UNCHANGED <<viewVars, propVars, appVars, tableVars>>

\* The call handleSubmit issues: update when an entity is bound, else create.
SubmitCall_alwaysCreate == [kind |-> "create", id |-> 0, data |-> formData]
SubmitCall ==
  IF editingEntity # NoEntity
    THEN [kind |-> "update", id |-> getEntityId(editingEntity), data |-> formData]
    ELSE [kind |-> "create", id |-> 0, data |-> formData]

\* handleSubmit up to its first await: setLoading(true) and the call
handleSubmit_unlessLoading(s) ==
  /\ Mounted
  /\ showForm
  /\ ~loading
  /\ FreeSlot(s)
  /\ loading' = TRUE
  /\ ops' = [ops EXCEPT ![s] =
               [Idle EXCEPT !.h = "submit", !.pc = "call",
                            !.kind = SubmitCall.kind, !.id = SubmitCall.id,
                            !.data = SubmitCall.data, !.ncall = 1]]
  /\ UNCHANGED <<db, nextId, entities, error, showForm, editingEntity, formData,
                 lastConfirm>>
  /\ UNCHANGED <<viewVars, propVars, appVars>>
  /\ TableFrame
handleSubmit(s) ==
  /\ Mounted
  /\ showForm
  /\ FreeSlot(s)
  /\ loading' = TRUE
  /\ ops' = [ops EXCEPT ![s] =
               [Idle EXCEPT !.h = "submit", !.pc = "call",
                            !.kind = SubmitCall.kind, !.id = SubmitCall.id,
                            !.data = SubmitCall.data, !.ncall = 1]]
  /\ UNCHANGED <<db, nextId, entities, error, showForm, editingEntity, formData,
                 lastConfirm>>
  /\ UNCHANGED <<viewVars, propVars, appVars>>
  /\ TableFrame

\* Whether handleDelete goes on to call deleteEntity after window.confirm
DeleteProceeds_noConfirm(answer) == TRUE
DeleteProceeds(answer) == answer

\* handleDelete(id, entityName) from a row of the table, up to its first
\* await; window.confirm blocks the event loop until the user answers.
handleDelete(e, answer) ==
  /\ Mounted
  /\ e \in ElemsOf(filteredEntities)
  /\ lastConfirm' = [text |-> ConfirmText(getEntityName(e)), answer |-> answer]
  /\ IF DeleteProceeds(answer)
       THEN /\ loading' = TRUE
            /\ \E s \in Slots :
                 /\ FreeSlot(s)
                 /\ ops' = [ops EXCEPT ![s] =
                              [Idle EXCEPT !.h = "delete", !.pc = "call",
                                           !.kind = "delete", !.id = getEntityId(e),
                                           !.ncall = 1]]
       ELSE UNCHANGED <<loading, ops>>
  /\ UNCHANGED <<db, nextId, entities, error, showForm, editingEntity, formData>>
  /\ UNCHANGED <<viewVars, propVars, appVars>>
  /\ TableFrame

\* ------------------------------------------------ handler continuations
\* The message the catch block of the handler of slot s sets
CatchError_saveOnly(op) == saveError
CatchError(op) == IF op.h = "submit" THEN saveError ELSE deleteError

\* Whether the awaited create/update/delete call threw into the catch block
CallThrew_swallowed(resp) == FALSE
CallThrew(resp) == resp.st = "reject"

\* handleSubmit / handleDelete resume from await createEntity / updateEntity /
\* deleteEntity.  If the call rejected: catch (setError) and finally
\* (setLoading(false)).  Otherwise the handler calls loadData, which runs to
\* its own await: setLoading(true); setError(null); loadEntities().
ResumeCall_patchesOnDelete(s) ==
  /\ ops[s].pc = "call"
  /\ ops[s].resp.st # "none"
  /\ IF CallThrew(ops[s].resp)
       THEN /\ error' = CatchError(ops[s])
            /\ loading' = FALSE
            /\ ops' = [ops EXCEPT ![s] = Done]
       ELSE /\ error' = NoError
            /\ loading' = TRUE
            /\ ops' = [ops EXCEPT ![s] =
                         LoadDataStart([ops[s] EXCEPT !.callSt = ops[s].resp.st])]
  /\ entities' = IF ops[s].kind = "delete" /\ ops[s].resp.st = "ok"
                   THEN SelectSeq(entities, LAMBDA e : e.id # ops[s].id)
                   ELSE entities
  /\ UNCHANGED <<db, nextId, showForm, editingEntity, formData, lastConfirm>>
  /\ UNCHANGED <<viewVars, propVars, appVars>>
  /\ TableFrame
ResumeCall(s) ==
  /\ ops[s].pc = "call"
  /\ ops[s].resp.st # "none"
  /\ IF CallThrew(ops[s].resp)
       THEN /\ error' = CatchError(ops[s])
            /\ loading' = FALSE
            /\ ops' = [ops EXCEPT ![s] = Done]
       ELSE /\ error' = NoError
            /\ loading' = TRUE
            /\ ops' = [ops EXCEPT ![s] =
                         LoadDataStart([ops[s] EXCEPT !.callSt = ops[s].resp.st])]
  /\ UNCHANGED <<db, nextId, entities, showForm, editingEntity, formData,
                 lastConfirm>>
  /\ UNCHANGED <<viewVars, propVars, appVars>>
  /\ TableFrame

\* loadData resumes from await loadEntities() and runs to its end; the
\* handler that awaited loadData (handleSubmit, handleDelete) continues in
\* the same task: handleSubmit closes and resets the form; each ends with
\* its finally, setLoading(false).
ResumeLoad_rethrows(s) ==
  /\ ops[s].pc = "load"
  /\ ops[s].resp.st # "none"
  /\ entities' = LoadDataEntities(ops[s].resp)
  /\ error' = IF ops[s].resp.st = "reject" /\ ops[s].h # "load"
                THEN CatchError(ops[s])
                ELSE LoadDataError(ops[s].resp)
  /\ loading' = LoadDataLoading(ops[s].resp)
  /\ IF ops[s].h = "submit" /\ ops[s].resp.st # "reject"
       THEN /\ showForm' = FALSE
            /\ editingEntity' = NoEntity
            /\ formData' = resetForm
       ELSE UNCHANGED <<showForm, editingEntity, formData>>
  /\ ops' = [ops EXCEPT ![s] = Done]
  /\ UNCHANGED <<db, nextId, lastConfirm>>
  /\ UNCHANGED <<viewVars, propVars, appVars>>
  /\ TableFrame
ResumeLoad(s) ==
  /\ ops[s].pc = "load"
  /\ ops[s].resp.st # "none"
  /\ entities' = LoadDataEntities(ops[s].resp)
  /\ error' = LoadDataError(ops[s].resp)
  /\ loading' = LoadDataLoading(ops[s].resp)
  /\ IF ops[s].h = "submit"
       THEN /\ showForm' = FALSE
            /\ editingEntity' = NoEntity
            /\ formData' = resetForm
       ELSE UNCHANGED <<showForm, editingEntity, formData>>
  /\ ops' = [ops EXCEPT ![s] = Done]
  /\ UNCHANGED <<db, nextId, lastConfirm>>
  /\ UNCHANGED <<viewVars, propVars, appVars>>
  /\ TableFrame

\* ------------------------------------------------------------------ Next
Next ==
  \/ OpenForm
  \/ \E v \in FormVals : SetFormData(v)
  \/ \E e \in ElemsOf(entities) : handleEdit(e, TRUE)
  \/ handleCancel
  \/ \E s \in Slots : handleSubmit(s)
  \/ \E e \in ElemsOf(entities), answer \in BOOLEAN : handleDelete(e, answer)
  \/ \E s \in Slots, out \in {"ok", "fail", "reject"} : ServeCall(s, out)
  \/ \E s \in Slots, out \in {"ok", "fail", "reject"} : ServeLoad(s, out)
  \/ \E s \in Slots : ResumeCall(s)
  \/ \E s \in Slots : ResumeLoad(s)

Spec == Init /\ [][Next]_vars

\* ------------------------------------------- search box and detail view
\* EntityTable onSearchChange={setSearchTerm}
setSearchTerm(q) ==
  /\ Mounted
  /\ searchTerm # q
  /\ searchTerm' = q
  /\ UNCHANGED <<db, nextId, entities, loading, error, showForm, editingEntity,
                 formData, ops, lastConfirm, viewingEntity, propVars, appVars, tableVars>>

\* handleView(entity), from a row of the table
handleView_closesForm(e) ==
  /\ Mounted
  /\ e \in ElemsOf(filteredEntities)
  /\ viewingEntity' = e
  /\ showForm' = FALSE
  /\ editingEntity' = NoEntity
  /\ UNCHANGED <<db, nextId, entities, loading, error,
                 formData, ops, lastConfirm, searchTerm, propVars, appVars, tableVars>>
handleView(e) ==
  /\ Mounted
  /\ e \in ElemsOf(filteredEntities)
  /\ viewingEntity' = e
  /\ UNCHANGED <<db, nextId, entities, loading, error, showForm, editingEntity,
                 formData, ops, lastConfirm, searchTerm, propVars, appVars, tableVars>>

\* EntityDetailModal onClose={() => setViewingEntity(null)}
CloseView ==
  /\ Mounted
  /\ viewingEntity # NoEntity
  /\ viewingEntity' = NoEntity
  /\ UNCHANGED <<db, nextId, entities, loading, error, showForm, editingEntity,
                 formData, ops, lastConfirm, searchTerm, propVars, appVars, tableVars>>

\* The entities the server holds when the screen mounts: the first n of a
\* list whose names alternate between "Ab" and "b".
SampleName(i) == IF i % 2 = 1 THEN <<"A", "b">> ELSE <<"b">>
SampleDb(n) == [i \in 1..n |-> [id |-> i, nombre |-> SampleName(i)]]
\* The drafts the user types in SpecView
ViewFormVals == {[nombre |-> <<>>], [nombre |-> <<"b">>]}

\* The hook mounted over a server that holds up to MaxRows entities; the
\* user searches, views, edits, types and cancels, and submits nothing.
InitView ==
  /\ db \in {SampleDb(n) : n \in 0..MaxRows}
  /\ nextId = Len(db) + 1
  /\ entities = <<>>
  /\ loading = TRUE
  /\ error = NoError
  /\ showForm = FALSE
  /\ editingEntity = NoEntity
  /\ formData = initialFormData
  /\ ops = [s \in Slots |-> IF s = 1
                             THEN LoadDataStart([Idle EXCEPT !.h = "load"])
                             ELSE Idle]
  /\ lastConfirm = [text |-> <<>>, answer |-> FALSE]
  /\ searchTerm = <<>>
  /\ viewingEntity = NoEntity
  /\ properties = <<>>
  /\ selectedProperties = <<>>
  /\ EntityTableInit
  /\ SignedInAt("/inquilinos")

NextView ==
  \/ OpenForm
  \/ \E v \in ViewFormVals : SetFormData(v)
  \/ \E e \in ElemsOf(entities), mapper \in BOOLEAN : handleEdit(e, mapper)
  \/ handleCancel
  \/ \E q \in Terms : setSearchTerm(q)
  \/ \E e \in ElemsOf(entities) : handleView(e)
  \/ CloseView
  \/ \E s \in Slots, out \in {"ok", "fail", "reject"} : ServeLoad(s, out)
  \/ \E s \in Slots : ResumeLoad(s)

SpecView == InitView /\ [][NextView]_vars

\* ------------------------------------------------ EntityTable: rendering
emptyMessage == "No hay inquilinos registrados"
emptySearchMessage == "No se encontraron inquilinos que coincidan con la búsqueda"
TableRows == "rows"

\* What EntityTable renders below the controls: entities.length === 0 ?
\* emptyMessage : filteredEntities.length === 0 ? emptySearchMessage : table
EntityTableBody_searchFirst ==
  IF Len(filteredEntities) = 0
    THEN emptySearchMessage
    ELSE IF Len(entities) = 0 THEN emptyMessage ELSE TableRows
EntityTableBody ==
  IF Len(entities) = 0
    THEN emptyMessage
    ELSE IF Len(filteredEntities) = 0 THEN emptySearchMessage ELSE TableRows

\* truncateText(text, maxLength):
\* text.length <= maxLength ? text : text.substring(0, maxLength) + '...'
Ellipsis == <<".", ".", ".">>
truncateText_cutsAtLimit(text, maxLength) ==
  IF Len(text) < maxLength THEN text ELSE SubSeq(text, 1, maxLength) \o Ellipsis
truncateText(text, maxLength) ==
  IF Len(text) <= maxLength THEN text ELSE SubSeq(text, 1, maxLength) \o Ellipsis

\* The cell of a column: column.maxLength ?
\* truncateText(String(column.render(entity)), column.maxLength) :
\* column.render(entity).  text is what render gives, a string, which
\* String() hands back as it is; maxLength 0 stands for none configured.
RenderedCell(text, maxLength) ==
  IF maxLength # 0 THEN truncateText(text, maxLength) ELSE text

\* ------------------------------------------------- EntityTable: handlers
\* The row of the table with the given id
RowOf(id) == CHOOSE e \in ElemsOf(filteredEntities) : getEntityId(e) = id

\* The elements on the page: the table (triggers, menus) is rendered when
\* the filtered view has rows, the items of a menu when openMenuId is its
\* row, the checkboxes of the columns when the column-filter panel is open.
Rendered(t) ==
  /\ Mounted
  /\ \/ t.kind = "trigger" /\ t.id \in IdsOf(filteredEntities)
     \/ /\ t.kind \in {"view", "edit", "delete"}
        /\ t.id \in IdsOf(filteredEntities)
        /\ openMenuId = t.id
     \/ t.kind = "filterButton"
     \/ t.kind = "column" /\ t.col \in ColumnKeys /\ showColumnFilter
     \/ t.kind = "outside"

Targets ==
  {Target(k, id, "") : k \in {"trigger", "view", "edit", "delete"}, id \in 1..MaxTableRows}
    \cup {Target("filterButton", 0, "")}
    \cup {Target("column", 0, c) : c \in ColumnKeys}
    \cup {Elsewhere}

\* filterRef.current.contains(event.target): the div of the filter button
\* and the column-filter panel
InFilter(t) == t.kind \in {"filterButton", "column"}
\* some menuRefs entry contains event.target: the actions-menu-container of
\* any row, which holds the trigger and the menu
InMenu(t) == t.kind \in {"trigger", "view", "edit", "delete"}

\* handleClickOutside(event), the values it leaves
ClickOutsideFilter(t) == IF InFilter(t) THEN showColumnFilter ELSE FALSE
ClickOutsideMenu_keepsOpen(t) == openMenuId
ClickOutsideMenu(t) == IF InMenu(t) THEN openMenuId ELSE NoMenu

\* A mousedown on t.  The document listener handleClickOutside is attached
\* while showColumnFilter || openMenuId !== null.
MouseDown(t) ==
  /\ Rendered(t)
  /\ IF showColumnFilter \/ openMenuId # NoMenu
       THEN /\ showColumnFilter' = ClickOutsideFilter(t)
            /\ openMenuId' = ClickOutsideMenu(t)
       ELSE UNCHANGED <<showColumnFilter, openMenuId>>
  /\ pointer' = [target |-> t, phase |-> "down",
                 heard |-> (showColumnFilter \/ openMenuId # NoMenu)]
  /\ UNCHANGED <<db, nextId, entities, loading, error, showForm, editingEntity,
                 formData, ops, lastConfirm, viewVars, propVars, appVars, visibleColumns>>

\* The click that ends the press on an element that is still rendered
Clicks(kind) ==
  /\ pointer.phase = "down"
  /\ pointer.target.kind = kind
  /\ Rendered(pointer.target)

\* actions-menu-trigger onClick:
\* setOpenMenuId(openMenuId === entityId ? null : entityId)
TriggerToggle_closesAnyOpen(id) == IF openMenuId # NoMenu THEN NoMenu ELSE id
TriggerToggle(id) == IF openMenuId = id THEN NoMenu ELSE id

ClickTrigger ==
  /\ Clicks("trigger")
  /\ openMenuId' = TriggerToggle(pointer.target.id)
  /\ pointer' = NoPointer
  /\ UNCHANGED <<db, nextId, entities, loading, error, showForm, editingEntity,
                 formData, ops, lastConfirm, viewVars, propVars, appVars,
                 visibleColumns, showColumnFilter>>

\* What the click on an item of the menu leaves in openMenuId
MenuAfterItem_staysOpen == openMenuId
MenuAfterItem == NoMenu

\* btn-view onClick: onView(entity), which is handleView; setOpenMenuId(null)
ClickView ==
  /\ Clicks("view")
  /\ viewingEntity' = RowOf(pointer.target.id)
  /\ openMenuId' = MenuAfterItem
  /\ pointer' = NoPointer
  /\ UNCHANGED <<db, nextId, entities, loading, error, showForm, editingEntity,
                 formData, ops, lastConfirm, searchTerm, propVars, appVars,
                 visibleColumns, showColumnFilter>>

\* btn-edit onClick: onEdit(entity), which is handleEditInquilino and so
\* handleEdit with the mapper; setOpenMenuId(null)
ClickEdit ==
  /\ Clicks("edit")
  /\ editingEntity' = RowOf(pointer.target.id)
  /\ formData' = EditFormData(RowOf(pointer.target.id), TRUE)
  /\ showForm' = TRUE
  /\ openMenuId' = MenuAfterItem
  /\ pointer' = NoPointer
  /\ UNCHANGED <<db, nextId, entities, loading, error, ops, lastConfirm,
                 viewVars, propVars, appVars, visibleColumns, showColumnFilter>>

\* btn-delete onClick: onDelete(entityId, entityName), which is
\* handleDeleteInquilino and so handleDelete up to its first await;
\* setOpenMenuId(null).  The user starts a delete when no other call is
\* in flight.
ClickDelete(answer) ==
  /\ Clicks("delete")
  /\ InFlight = {}
  /\ lastConfirm' = [text |-> ConfirmText(getEntityName(RowOf(pointer.target.id))),
                     answer |-> answer]
  /\ IF DeleteProceeds(answer)
       THEN /\ loading' = TRUE
            /\ \E s \in Slots :
                 /\ FreeSlot(s)
                 /\ ops' = [ops EXCEPT ![s] =
                              [Idle EXCEPT !.h = "delete", !.pc = "call",
                                           !.kind = "delete",
                                           !.id = pointer.target.id,
                                           !.ncall = 1]]
       ELSE UNCHANGED <<loading, ops>>
  /\ openMenuId' = MenuAfterItem
  /\ pointer' = NoPointer
  /\ UNCHANGED <<db, nextId, entities, error, showForm, editingEntity, formData,
                 viewVars, propVars, appVars, visibleColumns, showColumnFilter>>

\* filter-button onClick: setShowColumnFilter(!showColumnFilter)
ClickFilterButton ==
  /\ Clicks("filterButton")
  /\ showColumnFilter' = ~showColumnFilter
  /\ pointer' = NoPointer
  /\ UNCHANGED <<db, nextId, entities, loading, error, showForm, editingEntity,
                 formData, ops, lastConfirm, viewVars, propVars, appVars,
                 visibleColumns, openMenuId>>

\* toggleColumn(columnKey): the set it hands to setVisibleColumns
toggleColumn_hidesTheLast(columnKey) ==
  IF columnKey \in visibleColumns
    THEN visibleColumns \ {columnKey}
    ELSE visibleColumns \cup {columnKey}
toggleColumn_neverShows(columnKey) ==
  IF columnKey \in visibleColumns /\ Cardinality(visibleColumns) > 1
    THEN visibleColumns \ {columnKey}
    ELSE visibleColumns
toggleColumn(columnKey) ==
  IF columnKey \in visibleColumns /\ Cardinality(visibleColumns) > 1
    THEN visibleColumns \ {columnKey}
    ELSE IF columnKey \notin visibleColumns
           THEN visibleColumns \cup {columnKey}
           ELSE visibleColumns

\* disabled={visibleColumns.size === 1 && visibleColumns.has(column.key)}
ColumnDisabled(columnKey) ==
  Cardinality(visibleColumns) = 1 /\ columnKey \in visibleColumns

\* checkbox onChange={() => toggleColumn(column.key)}; a disabled checkbox
\* fires no change event
ClickColumn ==
  /\ Clicks("column")
  /\ ~ColumnDisabled(pointer.target.col)
  /\ visibleColumns' = toggleColumn(pointer.target.col)
  /\ pointer' = NoPointer
  /\ UNCHANGED <<db, nextId, entities, loading, error, showForm, editingEntity,
                 formData, ops, lastConfirm, viewVars, propVars, appVars,
                 showColumnFilter, openMenuId>>

\* The Inquilinos page over a server that holds up to MaxRows entities: the
\* user works the table with the mouse, and closes the modals it opens.
InitTable ==
  /\ db \in {SampleDb(n) : n \in 0..MaxTableRows}
  /\ nextId = Len(db) + 1
  /\ entities = <<>>
  /\ loading = TRUE
  /\ error = NoError
  /\ showForm = FALSE
  /\ editingEntity = NoEntity
  /\ formData = initialFormData
  /\ ops = [s \in Slots |-> IF s = 1
                             THEN LoadDataStart([Idle EXCEPT !.h = "load"])
                             ELSE Idle]
  /\ lastConfirm = [text |-> <<>>, answer |-> FALSE]
  /\ searchTerm = <<>>
  /\ viewingEntity = NoEntity
  /\ properties = <<>>
  /\ selectedProperties = <<>>
  /\ EntityTableInit
  /\ SignedInAt("/inquilinos")

NextTable ==
  \/ \E t \in Targets : MouseDown(t)
  \/ ClickTrigger
  \/ ClickView
  \/ ClickEdit
  \/ \E answer \in BOOLEAN : ClickDelete(answer)
  \/ ClickFilterButton
  \/ ClickColumn
  \/ handleCancel
  \/ CloseView
  \/ \E s \in Slots, out \in {"ok", "fail", "reject"} : ServeCall(s, out)
  \/ \E s \in Slots, out \in {"ok", "fail", "reject"} : ServeLoad(s, out)
  \/ \E s \in Slots : ResumeCall(s)
  \/ \E s \in Slots : ResumeLoad(s)

SpecTable == InitTable /\ [][NextTable]_vars

\* ------------------------------------------------- the Alquileres screen
\* Alquileres uses the hook for its collection, its form flags and its
\* draft, keeps the chosen contract file itself, and submits the form with
\* its own handler, handleSubmitWithFile, in place of the hook's
\* handleSubmit.  An alquiler is told by its id and nombre, like the
\* entities above; the lists behind the selects of the form are read by no
\* handler below.

\* FileUpload onChange={setContratoFile}
setContratoFile(file) ==
  /\ Mounted
  /\ showForm
  /\ contratoFile # file
  /\ contratoFile' = file
  /\ UNCHANGED <<db, nextId, entities, loading, error, showForm, editingEntity,
                 formData, ops, lastConfirm>>
  /\ UNCHANGED <<viewVars, propVars, tableVars, routeVars>>

\* handleEditAlquiler(alquiler), from a row of the table: handleEdit with
\* the mapper, then setContratoFile(null)
handleEditAlquiler(e) ==
  /\ Mounted
  /\ e \in ElemsOf(filteredEntities)
  /\ editingEntity' = e
  /\ formData' = EditFormData(e, TRUE)
  /\ showForm' = TRUE
  /\ contratoFile' = NoFile
  /\ UNCHANGED <<db, nextId, entities, loading, error, ops, lastConfirm>>
  /\ UNCHANGED <<viewVars, propVars, tableVars, routeVars>>

\* handleCancelWithReset: handleCancel, then setContratoFile(null)
handleCancelWithReset ==
  /\ Mounted
  /\ showForm
  /\ showForm' = FALSE
  /\ editingEntity' = NoEntity
  /\ formData' = resetForm
  /\ contratoFile' = NoFile
  /\ UNCHANGED <<db, nextId, entities, loading, error, ops, lastConfirm>>
  /\ UNCHANGED <<viewVars, propVars, tableVars, routeVars>>

\* handleSubmitWithFile up to its first await: updateAlquiler(id,
\* alquilerData, contratoFile) when an alquiler is bound, else
\* createAlquiler(alquilerData, contratoFile); alquilerData copies every
\* field of formData.  It does not touch loading.
handleSubmitWithFile(s) ==
  /\ Mounted
  /\ showForm
  /\ FreeSlot(s)
  /\ ops' = [ops EXCEPT ![s] =
               [Idle EXCEPT !.h = "submitWithFile", !.pc = "call",
                            !.kind = SubmitCall.kind, !.id = SubmitCall.id,
                            !.data = [nombre |-> formData.nombre],
                            !.file = contratoFile, !.ncall = 1]]
  /\ UNCHANGED <<db, nextId, entities, loading, error, showForm, editingEntity,
                 formData, lastConfirm>>
  /\ UNCHANGED <<viewVars, propVars, tableVars, appVars>>

\* handleSubmitWithFile resumes from await updateAlquiler / createAlquiler.
\* If the call rejected: catch, which logs and alerts and sets nothing.
\* Otherwise it calls loadData, which runs to its await.
AlquileresResumeCall(s) ==
  /\ ops[s].pc = "call"
  /\ ops[s].resp.st # "none"
  /\ ops[s].h = "submitWithFile"
  /\ IF CallThrew(ops[s].resp)
       THEN /\ ops' = [ops EXCEPT ![s] = Done]
            /\ UNCHANGED <<error, loading>>
       ELSE /\ error' = NoError
            /\ loading' = TRUE
            /\ ops' = [ops EXCEPT ![s] =
                         LoadDataStart([ops[s] EXCEPT !.callSt = ops[s].resp.st])]
  /\ UNCHANGED <<db, nextId, entities, showForm, editingEntity, formData,
                 lastConfirm>>
  /\ UNCHANGED <<viewVars, propVars, appVars>>
  /\ TableFrame

\* loadData resumes from await loadEntities() and runs to its end; in the
\* same task handleSubmitWithFile goes on: setShowForm(false);
\* setContratoFile(null); setFormData({nombre: '', ...}).  It does not set
\* editingEntity (the hook hands out no setter for it).
AlquileresResumeLoad(s) ==
  /\ ops[s].pc = "load"
  /\ ops[s].resp.st # "none"
  /\ entities' = LoadDataEntities(ops[s].resp)
  /\ error' = LoadDataError(ops[s].resp)
  /\ loading' = LoadDataLoading(ops[s].resp)
  /\ IF ops[s].h = "submitWithFile"
       THEN /\ showForm' = FALSE
            /\ contratoFile' = NoFile
            /\ formData' = [nombre |-> <<>>]
       ELSE UNCHANGED <<showForm, contratoFile, formData>>
  /\ UNCHANGED editingEntity
  /\ ops' = [ops EXCEPT ![s] = Done]
  /\ UNCHANGED <<db, nextId, lastConfirm>>
  /\ UNCHANGED <<viewVars, propVars, routeVars>>
  /\ TableFrame

\* State after the first render of Alquileres and the hook's mount effect
InitAlquileres ==
  /\ db \in {<<>>, <<[id |-> 1, nombre |-> NameOfLen(1)]>>}
  /\ nextId = Len(db) + 1
  /\ entities = <<>>
  /\ loading = TRUE
  /\ error = NoError
  /\ showForm = FALSE
  /\ editingEntity = NoEntity
  /\ formData = initialFormData
  /\ ops = [s \in Slots |-> IF s = 1
                             THEN LoadDataStart([Idle EXCEPT !.h = "load"])
                             ELSE Idle]
  /\ lastConfirm = [text |-> <<>>, answer |-> FALSE]
  /\ searchTerm = <<>>
  /\ viewingEntity = NoEntity
  /\ properties = <<>>
  /\ selectedProperties = <<>>
  /\ EntityTableInit
  /\ SignedInAt("/alquileres")

NextAlquileres ==
  \/ OpenForm
  \/ \E v \in FormVals : SetFormData(v)
  \/ \E file \in {NoFile, SampleFile} : setContratoFile(file)
  \/ \E e \in ElemsOf(entities) : handleEditAlquiler(e)
  \/ handleCancelWithReset
  \/ \E s \in Slots : handleSubmitWithFile(s)
  \/ \E s \in Slots, out \in {"ok", "fail", "reject"} : ServeCall(s, out)
  \/ \E s \in Slots, out \in {"ok", "fail", "reject"} : ServeLoad(s, out)
  \/ \E s \in Slots : AlquileresResumeCall(s)
  \/ \E s \in Slots : AlquileresResumeLoad(s)

SpecAlquileres == InitAlquileres /\ [][NextAlquileres]_vars

\* ------------------------------------------- login, logout and navigation
\* The app as the router and the session calls see it: what the pages show
\* inside is left out, the hook's state stays as created.

\* The sequence seq without its i-th element
RemoveAt(seq, i) == SubSeq(seq, 1, i - 1) \o SubSeq(seq, i + 1, Len(seq))
\* A session call in flight: login(credentials), register(userData), logout()
AuthCall(kind, remember) == [kind |-> kind, remember |-> remember]

\* The router renders path: a click on a <Link>, navigate(...), a URL typed
\* into the address bar, the back button
RenderAt(storage, path) ==
  /\ pathname' = Resolve(storage, path).pathname
  /\ screen' = Resolve(storage, path).screen

\* The frame of the session and navigation steps
pageVars == <<db, nextId, entities, loading, error, showForm, editingEntity,
              formData, ops, lastConfirm, viewVars, propVars, tableVars,
              contratoFile>>

\* The user opens path
GoTo(path) ==
  /\ RenderAt(localStorage, path)
  /\ UNCHANGED <<localStorage, authCalls>>
  /\ UNCHANGED pageVars

\* Login handleSubmit up to await apiService.login(formData)
LoginSubmit(remember) ==
  /\ screen = "/login"
  /\ Len(authCalls) < MaxAuthCalls
  /\ authCalls' = Append(authCalls, AuthCall("login", remember))
  /\ UNCHANGED <<localStorage, pathname, screen>>
  /\ UNCHANGED pageVars

\* apiService.login after its await, and Login handleSubmit after it.  out
\* "ok": {success: true, data}: the user is stored ('remember' too when
\* asked) and the page navigates to /dashboard; "fail" (an envelope with
\* success false, also built from an error response) and "reject" (no
\* response) leave the storage and the location alone.
LoginResume(i, out) ==
  /\ i \in 1..Len(authCalls)
  /\ authCalls[i].kind = "login"
  /\ IF out = "ok"
       THEN /\ localStorage' =
                 [user |-> JSONstringify(SampleUser),
                  remember |-> IF authCalls[i].remember
                                 THEN RememberItem
                                 ELSE localStorage.remember]
            /\ RenderAt(localStorage', "/dashboard")
       ELSE UNCHANGED <<localStorage, pathname, screen>>
  /\ authCalls' = RemoveAt(authCalls, i)
  /\ UNCHANGED pageVars

\* Register handleSubmit up to await apiService.register(registerData)
RegisterSubmit ==
  /\ screen = "/register"
  /\ Len(authCalls) < MaxAuthCalls
  /\ authCalls' = Append(authCalls, AuthCall("register", FALSE))
  /\ UNCHANGED <<localStorage, pathname, screen>>
  /\ UNCHANGED pageVars

\* apiService.register after its await, and Register handleSubmit after it:
\* the user is stored when response.data.success && response.data.data, the
\* page navigates to /dashboard when response.success ("okNoData": success
\* without data)
RegisterResume(i, out) ==
  /\ i \in 1..Len(authCalls)
  /\ authCalls[i].kind = "register"
  /\ localStorage' = IF out = "ok"
                       THEN [localStorage EXCEPT !.user = JSONstringify(SampleUser)]
                       ELSE localStorage
  /\ IF out \in {"ok", "okNoData"}
       THEN RenderAt(localStorage', "/dashboard")
       ELSE UNCHANGED <<pathname, screen>>
  /\ authCalls' = RemoveAt(authCalls, i)
  /\ UNCHANGED pageVars

\* Dashboard logout-button onClick up to the await inside apiService.logout
LogoutClick ==
  /\ screen = "/dashboard"
  /\ Len(authCalls) < MaxAuthCalls
  /\ authCalls' = Append(authCalls, AuthCall("logout", FALSE))
  /\ UNCHANGED <<localStorage, pathname, screen>>
  /\ UNCHANGED pageVars

\* apiService.logout after its await, whatever the answer: finally removes
\* 'user' and 'remember'; then the onClick goes on in the same task with
\* navigate('/login', { replace: true })
LogoutResume_staysOnPage(i) ==
  /\ i \in 1..Len(authCalls)
  /\ authCalls[i].kind = "logout"
  /\ localStorage' = [user |-> NoItem, remember |-> NoItem]
  /\ UNCHANGED <<pathname, screen>>
  /\ authCalls' = RemoveAt(authCalls, i)
  /\ UNCHANGED pageVars
LogoutResume(i) ==
  /\ i \in 1..Len(authCalls)
  /\ authCalls[i].kind = "logout"
  /\ localStorage' = [user |-> NoItem, remember |-> NoItem]
  /\ RenderAt(localStorage', "/login")
  /\ authCalls' = RemoveAt(authCalls, i)
  /\ UNCHANGED pageVars

\* The app loaded at some URL, with or without a user stored by an earlier
\* visit
InitRoute ==
  /\ localStorage \in
       {[user |-> NoItem, remember |-> NoItem]}
         \cup {[user |-> JSONstringify(SampleUser), remember |-> r] :
                 r \in {NoItem, RememberItem}}
  /\ \E path \in Paths :
       /\ pathname = Resolve(localStorage, path).pathname
       /\ screen = Resolve(localStorage, path).screen
  /\ authCalls = <<>>
  /\ contratoFile = NoFile
  /\ db = <<>>
  /\ nextId = 1
  /\ entities = <<>>
  /\ loading = TRUE
  /\ error = NoError
  /\ showForm = FALSE
  /\ editingEntity = NoEntity
  /\ formData = initialFormData
  /\ ops = [s \in Slots |-> Idle]
  /\ lastConfirm = [text |-> <<>>, answer |-> FALSE]
  /\ searchTerm = <<>>
  /\ viewingEntity = NoEntity
  /\ properties = <<>>
  /\ selectedProperties = <<>>
  /\ EntityTableInit

NextRoute ==
  \/ \E path \in Paths : GoTo(path)
  \/ \E remember \in BOOLEAN : LoginSubmit(remember)
  \/ \E i \in 1..MaxAuthCalls, out \in {"ok", "fail", "reject"} : LoginResume(i, out)
  \/ RegisterSubmit
  \/ \E i \in 1..MaxAuthCalls, out \in {"ok", "okNoData", "fail", "reject"} :
       RegisterResume(i, out)
  \/ LogoutClick
  \/ \E i \in 1..MaxAuthCalls : LogoutResume(i)

SpecRoute == InitRoute /\ [][NextRoute]_vars

\* ------------------------------------------------- the Properties screen
\* The Properties component keeps its own collection and selection and the
\* same loading, error and searchTerm state as the hook; its handlers wait
\* for the same server in the slots of ops.
propLoadError == "Error al cargar las propiedades"
propDeleteError == "Error al eliminar la propiedad"
propConfirmText == <<"¿Estás seguro de que quieres eliminar esta propiedad?">>

\* if (loading) return <div className="loading">: nothing else is rendered
PropertiesMounted == ~loading

\* filteredProperties (useMemo): all properties when the term is blank, else
\* those whose lower-cased nombre includes the lower-cased term
filteredProperties ==
  IF trim(searchTerm) = <<>>
    THEN properties
    ELSE SelectSeq(properties,
                   LAMBDA q : includes(toLowerCase(q.nombre), toLowerCase(searchTerm)))

\* The ids selected, as a set
SelectedSet == {selectedProperties[i] : i \in 1..Len(selectedProperties)}

\* isAllSelected, isIndeterminate: the flags of the header checkbox
isAllSelected ==
  Len(filteredProperties) > 0 /\ Len(selectedProperties) = Len(filteredProperties)
isIndeterminate_orEqual ==
  Len(selectedProperties) > 0 /\ Len(selectedProperties) <= Len(filteredProperties)
isIndeterminate ==
  Len(selectedProperties) > 0 /\ Len(selectedProperties) < Len(filteredProperties)

\* loadProperties up to its await: setLoading(true); setError(null);
\* apiService.getProperties(0, 100, '')
loadPropertiesStart(op) ==
  [op EXCEPT !.pc = "load", !.resp = NoResp, !.nload = op.nload + 1]

\* State after the first render of Properties and its mount effect.
InitSel ==
  /\ db \in {SampleDb(n) : n \in 0..MaxRows}
  /\ nextId = Len(db) + 1
  /\ properties = <<>>
  /\ selectedProperties = <<>>
  /\ EntityTableInit
  /\ SignedInAt("/propiedades")
  /\ searchTerm = <<>>
  /\ loading = TRUE
  /\ error = NoError
  /\ ops = [s \in Slots |-> IF s = 1
                             THEN loadPropertiesStart([Idle EXCEPT !.h = "load"])
                             ELSE Idle]
  /\ lastConfirm = [text |-> <<>>, answer |-> FALSE]
  /\ entities = <<>>
  /\ showForm = FALSE
  /\ editingEntity = NoEntity
  /\ formData = initialFormData
  /\ viewingEntity = NoEntity

\* The frame of the Properties handlers: the hook's own state
hookVars == <<entities, showForm, editingEntity, formData, viewingEntity>>

\* The texts typed into the search input of the Properties screen: empty,
\* one that matches some rows, one that matches every row, and one that
\* matches a row only once trimmed
SampleTerms == {<<>>, <<"A">>, <<"b">>, <<"a", " ">>}

\* search input onChange={(e) => setSearchTerm(e.target.value)}
PropertiesSetSearchTerm(q) ==
  /\ PropertiesMounted
  /\ searchTerm # q
  /\ searchTerm' = q
  /\ UNCHANGED <<db, nextId, loading, error, ops, lastConfirm, propVars, hookVars, appVars, tableVars>>

\* The selection handleSelectAll sets for e.target.checked = checked
SelectAllIds_ofAllProperties(checked) ==
  IF checked THEN [i \in 1..Len(properties) |-> properties[i].id] ELSE <<>>
SelectAllIds(checked) ==
  IF checked
    THEN [i \in 1..Len(filteredProperties) |-> filteredProperties[i].id]
    ELSE <<>>

\* handleSelectAll, from the header checkbox (checked={isAllSelected}) of the
\* table, which is rendered when the filtered view has rows; the click
\* hands over the opposite of what the box shows.
handleSelectAll(checked) ==
  /\ PropertiesMounted
  /\ Len(filteredProperties) > 0
  /\ checked = ~isAllSelected
  /\ selectedProperties' = SelectAllIds(checked)
  /\ UNCHANGED <<db, nextId, loading, error, ops, lastConfirm, searchTerm,
                 properties, hookVars, appVars, tableVars>>

\* handleSelectProperty(id), from the checkbox of a row of the filtered view
handleSelectProperty(id) ==
  /\ PropertiesMounted
  /\ id \in IdsOf(filteredProperties)
  /\ selectedProperties' =
       IF id \in SelectedSet
         THEN SelectSeq(selectedProperties, LAMBDA pId : pId # id)
         ELSE Append(selectedProperties, id)
  /\ UNCHANGED <<db, nextId, loading, error, ops, lastConfirm, searchTerm,
                 properties, hookVars, appVars, tableVars>>

\* Properties handleDelete(id), from a row of the filtered view, up to its
\* first await
PropertiesHandleDelete(id, answer) ==
  /\ PropertiesMounted
  /\ id \in IdsOf(filteredProperties)
  /\ lastConfirm' = [text |-> propConfirmText, answer |-> answer]
  /\ IF answer
       THEN /\ loading' = TRUE
            /\ \E s \in Slots :
                 /\ FreeSlot(s)
                 /\ ops' = [ops EXCEPT ![s] =
                              [Idle EXCEPT !.h = "delete", !.pc = "call",
                                           !.kind = "delete", !.id = id,
                                           !.ncall = 1]]
       ELSE UNCHANGED <<loading, ops>>
  /\ UNCHANGED <<db, nextId, error, searchTerm, propVars, hookVars, appVars, tableVars>>

\* Properties handleDelete resumes from await apiService.deleteProperty(id):
\* catch and finally if it rejected, else loadProperties up to its await
PropertiesResumeCall(s) ==
  /\ ops[s].pc = "call"
  /\ ops[s].resp.st # "none"
  /\ IF ops[s].resp.st = "reject"
       THEN /\ error' = propDeleteError
            /\ loading' = FALSE
            /\ ops' = [ops EXCEPT ![s] = Done]
       ELSE /\ error' = NoError
            /\ loading' = TRUE
            /\ ops' = [ops EXCEPT ![s] =
                         loadPropertiesStart([ops[s] EXCEPT !.callSt = ops[s].resp.st])]
  /\ UNCHANGED <<db, nextId, lastConfirm, searchTerm, propVars, hookVars, appVars, tableVars>>

\* loadProperties resumes from its await and runs to its end, and with it
\* the handleDelete that awaited it; the selection is not touched.
PropertiesResumeLoad(s) ==
  /\ ops[s].pc = "load"
  /\ ops[s].resp.st # "none"
  /\ properties' = IF ops[s].resp.st = "ok" THEN ops[s].resp.items ELSE properties
  /\ error' = IF ops[s].resp.st = "reject" THEN propLoadError ELSE error
  /\ loading' = FALSE
  /\ ops' = [ops EXCEPT ![s] = Done]
  /\ UNCHANGED <<db, nextId, lastConfirm, searchTerm, selectedProperties, hookVars, appVars, tableVars>>

NextSel ==
  \/ \E q \in SampleTerms : PropertiesSetSearchTerm(q)
  \/ \E checked \in BOOLEAN : handleSelectAll(checked)
  \/ \E id \in 1..MaxRows : handleSelectProperty(id)
  \/ \E id \in 1..MaxRows, answer \in BOOLEAN : PropertiesHandleDelete(id, answer)
  \/ \E s \in Slots, out \in {"ok", "fail", "reject"} : ServeCall(s, out)
  \/ \E s \in Slots, out \in {"ok", "fail", "reject"} : ServeLoad(s, out)
  \/ \E s \in Slots : PropertiesResumeCall(s)
  \/ \E s \in Slots : PropertiesResumeLoad(s)

SpecSel == InitSel /\ [][NextSel]_vars

TypeOK ==
  /\ nextId \in 1..(MaxId + 1)
  /\ IdsOf(db) \subseteq 1..(nextId - 1)
  /\ loading \in BOOLEAN
  /\ showForm \in BOOLEAN
  /\ error \in {NoError, loadError, saveError, deleteError}
  /\ formData \in FormVals

\* ---------------------------------------------------------------- claims
\* Steps of the async handlers, told from the slot they run in.
\* The handler h starts in slot s (its run up to the first await).
Starts(s, h) == ops[s].pc = "idle" /\ ops'[s].h = h
\* The handler of slot s resumes from its create/update/delete call.
CallResumes(s) == ops[s].pc = "call" /\ ops[s].resp.st # "none" /\ ops'[s].pc # "call"
\* loadData resumes from its load call in slot s and the handler ends.
LoadResumes(s) == ops[s].pc = "load" /\ ops[s].resp.st # "none" /\ ops'[s].pc = "done"
\* Nothing is in flight in any slot but s after the step, and s has ended.
EndsWithoutCall(s) == ops' = [ops EXCEPT ![s] = Done]

\* C1: handleSubmit calls updateEntity(getEntityId(editingEntity), formData)
\* exactly when an entity is bound at the moment of the submit and
\* createEntity(formData) exactly when none is bound; a submit issues one
\* such call, never both.
C1_SubmitCallsUpdateXorCreate ==
  /\ [][\A s \in Slots : Starts(s, "submit") =>
          /\ ops'[s].pc = "call"
          /\ ops'[s].data = formData
          /\ (editingEntity # NoEntity) <=>
               (ops'[s].kind = "update" /\ ops'[s].id = getEntityId(editingEntity))
          /\ (editingEntity = NoEntity) <=> (ops'[s].kind = "create")]_vars
  /\ [](\A s \in Slots : ops[s].h = "submit" =>
          ops[s].ncall = 1 /\ ops[s].kind \in {"create", "update"})
  /\ [][\A s \in Slots : ops[s].h = "submit" =>
          ops'[s].pc = "done" \/ (ops'[s].kind = ops[s].kind /\ ops'[s].ncall = ops[s].ncall)]_vars

\* An update call and a create call are outstanding together, each carrying
\* the form data of its submit.
C1_Witness ==
  \E s, t \in Slots :
    /\ ops[s].h = "submit" /\ ops[s].pc = "call" /\ ops[s].kind = "update"
    /\ ops[s].id \in Ids
    /\ ops[t].h = "submit" /\ ops[t].pc = "call" /\ ops[t].kind = "create"

\* C2: when the create/update call of a submit succeeds, exactly one load
\* call is issued after it; when the submit finishes, showForm = false,
\* editingEntity = null and formData = initialFormData; if the load succeeded
\* too, the collection is the list the server answered with, which holds the
\* created entity (unless the server has deleted it again since).
C2_SubmitSuccessRefreshesAndResets ==
  /\ [][\A s \in Slots :
          (CallResumes(s) /\ ops[s].h = "submit" /\ ops[s].resp.st = "ok") =>
             /\ ops'[s].pc = "load"
             /\ ops'[s].resp.st = "none"
             /\ ops'[s].nload = 1]_vars
  /\ [][\A s \in Slots :
          (LoadResumes(s) /\ ops[s].h = "submit" /\ ops[s].callSt = "ok") =>
             /\ ops[s].nload = 1
             /\ showForm' = FALSE
             /\ editingEntity' = NoEntity
             /\ formData' = initialFormData
             /\ ops[s].resp.st = "ok" =>
                  /\ entities' = ops[s].resp.items
                  /\ ops[s].kind = "create" =>
                       (ops[s].newId \in IdsOf(entities') \/ ops[s].newId \notin IdsOf(db))]_vars

\* Every handler has ended, the form is closed and reset, and the collection
\* is the server's list with a created entity in it.
C2_Witness ==
  /\ InFlight = {}
  /\ ops[2].pc = "done"
  /\ ~showForm /\ editingEntity = NoEntity /\ formData = initialFormData
  /\ entities = db
  /\ \E i \in 1..Len(entities) : entities[i].id = MaxId

C4_SubmitFailureKeepsFormAndSetsSaveError ==
  [][\A s \in Slots :
       (CallResumes(s) /\ ops[s].h = "submit" /\ ops[s].resp.st = "reject") =>
          /\ error' = saveError
          /\ showForm' = showForm
          /\ editingEntity' = editingEntity
          /\ formData' = formData
          /\ entities' = entities
          /\ ops[s].nload = 0 /\ ops[s].ncall = 1
          /\ EndsWithoutCall(s)]_vars

\* A submit has failed: the form is still open with its draft and its edit
\* binding, and the save-error message is shown.
C4_Witness ==
  /\ error = saveError
  /\ showForm
  /\ editingEntity # NoEntity
  /\ formData # initialFormData
  /\ InFlight = {}

\* C5: when the load call of a refresh rejects, the collection is left as it
\* was (never blanked) and error is the load-error message.
C5_FailedRefreshKeepsCollection ==
  [][\A s \in Slots :
       (LoadResumes(s) /\ ops[s].resp.st = "reject") =>
          /\ entities' = entities
          /\ error' = loadError]_vars

\* A refresh has failed while the collection held entities, and still holds them.
C5_Witness ==
  /\ error = loadError
  /\ Len(entities) > 0
  /\ InFlight = {}

\* C6 (as claimed): an envelope with success = false and a rejected call
\* leave the same resource-scoped message: load-error for a load call,
\* save-error for a create/update call, delete-error for a delete call.
C6_BusinessAndTransportFailureSameMessage ==
  [][\A s \in Slots :
       /\ (LoadResumes(s) /\ ops[s].resp.st \in {"fail", "reject"}) =>
             error' = loadError
       /\ (CallResumes(s) /\ ops[s].h = "submit" /\ ops[s].resp.st \in {"fail", "reject"}) =>
             error' = saveError
       /\ (CallResumes(s) /\ ops[s].h = "delete" /\ ops[s].resp.st \in {"fail", "reject"}) =>
             error' = deleteError]_vars

\* The confirm text names the entity by the display name given.
NamesEntity(text, entityName) == Len(text) = 3 /\ text[2] = entityName

\* C7: deleteEntity is called only in the step in which the user has
\* confirmed a prompt naming the entity by its display name; when the user
\* declines, no call is made and the collection, loading, error, showForm,
\* editingEntity and formData are unchanged.
C7_DeleteOnlyAfterConfirm ==
  /\ [][\A s \in Slots : Starts(s, "delete") =>
          /\ lastConfirm'.answer = TRUE
          /\ \E e \in ElemsOf(entities) :
               /\ getEntityId(e) = ops'[s].id
               /\ NamesEntity(lastConfirm'.text, getEntityName(e))
          /\ ops'[s].kind = "delete" /\ ops'[s].pc = "call"]_vars
  /\ [](\A s \in Slots : ops[s].kind = "delete" => ops[s].h = "delete")
  /\ [][\A e \in ElemsOf(entities) : handleDelete(e, FALSE) =>
          /\ NamesEntity(lastConfirm'.text, getEntityName(e))
          /\ UNCHANGED <<db, nextId, entities, loading, error, showForm,
                         editingEntity, formData, ops>>]_vars

\* The user has declined a prompt: nothing is in flight and nothing loads.
C7_Witness ==
  /\ lastConfirm.answer = FALSE
  /\ Len(lastConfirm.text) = 3
  /\ InFlight = {}
  /\ ops[2].pc = "idle"
  /\ ~loading

\* C8: after a confirmed delete whose call succeeds, exactly one load call is
\* issued once the delete has completed, and when that load succeeds the
\* collection is the list the server answered with, without the deleted id.
C8_DeleteSuccessRefreshesWithoutDeleted ==
  /\ [][\A s \in Slots :
          (CallResumes(s) /\ ops[s].h = "delete" /\ ops[s].resp.st = "ok") =>
             /\ ops[s].nload = 0
             /\ ops'[s].pc = "load"
             /\ ops'[s].resp.st = "none"
             /\ ops'[s].nload = 1]_vars
  /\ [][\A s \in Slots :
          (LoadResumes(s) /\ ops[s].h = "delete" /\ ops[s].callSt = "ok") =>
             /\ ops[s].nload = 1
             /\ ops[s].resp.st = "ok" =>
                  /\ entities' = ops[s].resp.items
                  /\ ops[s].id \notin IdsOf(entities')]_vars

\* A confirmed delete and its refresh have completed: an id the server gave
\* out is gone from the server's list and from the collection.
C8_Witness ==
  /\ InFlight = {}
  /\ lastConfirm.answer = TRUE
  /\ entities = db
  /\ \E i \in 1..(nextId - 1) : i \notin IdsOf(db) /\ i \notin IdsOf(entities)

\* C9: when a confirmed delete call rejects, error is the delete-error
\* message, the collection is unchanged, no load call is issued and loading
\* is false when the handler ends.
C9_DeleteFailureSetsDeleteError ==
  [][\A s \in Slots :
       (CallResumes(s) /\ ops[s].h = "delete" /\ ops[s].resp.st = "reject") =>
          /\ error' = deleteError
          /\ entities' = entities
          /\ ops[s].nload = 0
          /\ EndsWithoutCall(s)
          /\ loading' = FALSE]_vars

\* A delete has failed: the delete-error message is shown, the collection
\* still holds the entity and loading is false.
C9_Witness ==
  /\ error = deleteError
  /\ ~loading
  /\ lastConfirm.answer = TRUE
  /\ Len(entities) > 0
  /\ InFlight = {}

\* C10: every refresh that completes ends with loading = false, whether the
\* load call succeeded, returned an unsuccessful envelope or rejected.
C10_RefreshEndsNotLoading ==
  [][\A s \in Slots : LoadResumes(s) => loading' = FALSE]_vars

\* The mount's refresh has completed with a rejected load and loading is false.
C10_Witness ==
  /\ ops[1].pc = "done"
  /\ ops[2].pc = "idle"
  /\ error = loadError
  /\ ~loading

\* The search term as the claims normalise it: lower-cased and trimmed.
normalize(q) == trim(toLowerCase(q))

\* C17 (as claimed): the filtered view is the subsequence of the collection,
\* in its order, of exactly the entities for which
\* filterFunction(entity, normalize(searchTerm)) holds, and it is the
\* collection itself for the empty term.
C17_FilteredIsExactlyTheMatchesOfNormalizedTerm ==
  /\ filteredEntities =
       SelectSeq(entities, LAMBDA e : filterFunction(e, normalize(searchTerm)))
  /\ searchTerm = <<>> => filteredEntities = entities

\* C18 (as claimed): the term handed to the predicate is the search term
\* lower-cased and trimmed, and any term with the same normal form yields
\* the same filtered view.
C18_PredicateTermIsLowerCasedAndTrimmed ==
  /\ trim(searchTerm) # <<>> => filterTerm(searchTerm) = normalize(searchTerm)
  /\ \A q \in Terms :
       normalize(q) = normalize(searchTerm) =>
         filteredOf(entities, q) = filteredOf(entities, searchTerm)

\* C19: handleCancel leaves showForm = false, editingEntity = null and
\* formData = initialFormData, issues no network call, and leaves the
\* collection, loading, error, the search term and the detail-view binding
\* unchanged.
C19_CancelClosesResetsAndFrames ==
  [][handleCancel =>
       /\ showForm' = FALSE
       /\ editingEntity' = NoEntity
       /\ formData' = initialFormData
       /\ UNCHANGED <<ops, db, nextId>>
       /\ UNCHANGED <<entities, loading, error, searchTerm, viewingEntity>>]_vars

\* The form is closed and reset while entities are loaded, a search term is
\* typed and a detail view is open.
C19_Witness ==
  /\ ~showForm /\ editingEntity = NoEntity /\ formData = initialFormData
  /\ Len(entities) > 0
  /\ searchTerm # <<>>
  /\ viewingEntity # NoEntity
  /\ ~loading

\* C20: handleEdit(entity, mapper) leaves editingEntity = entity, formData =
\* mapper(entity) when a mapper is passed and formData = entity otherwise,
\* and showForm = true; it issues no network call and leaves the collection,
\* loading and error unchanged.
C20_BeginEditBindsMapsAndOpens ==
  [][\A e \in ElemsOf(entities), mapper \in BOOLEAN :
       handleEdit(e, mapper) =>
         /\ editingEntity' = e
         /\ mapper => formData' = mapEntityToFormData(e)
         /\ ~mapper => formData' = e
         /\ showForm' = TRUE
         /\ UNCHANGED <<ops, db, nextId>>
         /\ UNCHANGED <<entities, loading, error>>]_vars

\* An edit without a mapper has bound an entity of the collection: the form
\* is open and its data is the entity itself.
C20_Witness ==
  /\ showForm
  /\ editingEntity \in ElemsOf(entities)
  /\ formData = editingEntity

\* ------------------------------------------- selection (Properties screen)
\* A refresh of the Properties screen ends in slot s
RefreshEnds(s) == ops[s].pc = "load" /\ ops'[s].pc = "done"

SelectedSetNext ==
  {selectedProperties'[i] : i \in 1..Len(selectedProperties')}

\* C11: after any refresh the selection is its previous value intersected
\* with the ids of the new collection, so an id removed by a delete is not
\* selected after the refresh that follows the delete.
C11_RefreshPrunesSelection ==
  [][\A s \in Slots : RefreshEnds(s) =>
       SelectedSetNext = SelectedSet \cap IdsOf(properties')]_vars

\* C12: in every reachable state the selection is a subset of the ids of
\* the filtered view.
C12_SelectionWithinFilteredView == SelectedSet \subseteq IdsOf(filteredProperties)

\* C13: toggleAll(true) selects exactly the ids of the filtered view,
\* toggleAll(false) selects nothing, and toggleOne(id) flips the membership
\* of id and of no other id.
C13_TogglesSetExactlyWhatTheyName ==
  [][
      /\ handleSelectAll(TRUE) =>
          (/\ SelectedSetNext = IdsOf(filteredProperties)
           /\ Len(selectedProperties') = Len(filteredProperties))
      /\ handleSelectAll(FALSE) => (selectedProperties' = <<>>)
      /\ \A id \in 1..MaxRows : handleSelectProperty(id) =>
           (\A j \in 1..MaxRows :
              (j \in SelectedSetNext) = IF j = id THEN j \notin SelectedSet
                                                 ELSE j \in SelectedSet)
    ]_vars

\* A select-all under a search term that hides a row, and a row toggled on top
C13_Witness ==
  /\ trim(searchTerm) # <<>>
  /\ Len(filteredProperties) < Len(properties)
  /\ Len(selectedProperties) >= 2
  /\ SelectedSet = IdsOf(filteredProperties)

\* C14: allSelected is true exactly when the filtered view is not empty and
\* every id of it is selected.
C14_AllSelectedIffSupersetOfView ==
  isAllSelected <=> /\ IdsOf(filteredProperties) # {}
                    /\ IdsOf(filteredProperties) \subseteq SelectedSet

\* C15: indeterminate is true exactly when the selection is not empty and is
\* a proper subset of the ids of the filtered view.
C15_IndeterminateIffProperSubsetOfView ==
  isIndeterminate <=> /\ SelectedSet # {}
                      /\ SelectedSet \subseteq IdsOf(filteredProperties)
                      /\ SelectedSet # IdsOf(filteredProperties)

\* C16: allSelected and indeterminate are never both true.
C16_FlagsNeverBothTrue == ~(isAllSelected /\ isIndeterminate)

\* Every row of a view of two or more rows selected: allSelected alone
C16_Witness ==
  /\ Len(filteredProperties) >= 2
  /\ SelectedSet = IdsOf(filteredProperties)
  /\ isAllSelected
  /\ ~isIndeterminate

\* ------------------------------------------------ detail view and modals
\* C21: view(entity) sets only the detail-view binding: showForm,
\* editingEntity, formData, the collection, loading and error stay as they
\* are and no network call is issued.
C21_ViewSetsOnlyTheDetailBinding ==
  [][\A e \in ElemsOf(entities) :
       handleView(e) =>
         /\ viewingEntity' = e
         /\ UNCHANGED <<showForm, editingEntity, formData>>
         /\ UNCHANGED <<entities, loading, error>>
         /\ UNCHANGED <<ops, db, nextId>>]_vars

\* An entity is viewed while the edit form is open on an entity with a
\* changed draft.
C21_Witness ==
  /\ viewingEntity \in ElemsOf(entities)
  /\ showForm
  /\ editingEntity \in ElemsOf(entities)
  /\ formData # mapEntityToFormData(editingEntity)

\* The modals of the controller
CreateFormOpen == showForm /\ editingEntity = NoEntity
EditFormOpen == showForm /\ editingEntity # NoEntity
DetailViewOpen == viewingEntity # NoEntity

\* C22: at most one of create-form open, edit-form open and detail-view
\* open is active in every reachable state.
C22_AtMostOneModalActive ==
  Cardinality({m \in {"create", "edit", "view"} :
                 \/ m = "create" /\ CreateFormOpen
                 \/ m = "edit" /\ EditFormOpen
                 \/ m = "view" /\ DetailViewOpen}) <= 1

\* ---------------------------------------------------------- EntityTable
\* C23: the set of visible columns is never empty, and toggling off the
\* sole remaining visible column leaves the set unchanged.
C23_VisibleColumnsNeverEmpty ==
  /\ visibleColumns # {}
  /\ \A k \in ColumnKeys : visibleColumns = {k} => toggleColumn(k) = visibleColumns

\* The panel is open and a toggle has left one column visible
C23_Witness == showColumnFilter /\ Cardinality(visibleColumns) = 1

\* The rows whose action menu is rendered
OpenMenus == {id \in IdsOf(filteredEntities) : openMenuId = id}

\* C24: at most one row's action menu is open, and the click that ends a
\* press on row B's trigger while row A's menu is open leaves only B's open.
C24_OneMenuOpenAtATime ==
  /\ [](Cardinality(OpenMenus) <= 1)
  /\ [][(ClickTrigger /\ openMenuId \notin {NoMenu, pointer.target.id}) =>
          openMenuId' = pointer.target.id]_vars

\* The mousedown on B's trigger has happened while A's menu is open
C24_Witness ==
  /\ pointer.phase = "down"
  /\ pointer.target.kind = "trigger"
  /\ pointer.heard
  /\ Cardinality(OpenMenus) = 1
  /\ pointer.target.id \notin OpenMenus

\* C25: while a menu or the column-filter panel is open, a mouse press
\* outside every action-menu container and outside the column filter closes
\* both the menu and the panel.
C25_PressOutsideClosesMenuAndPanel ==
  [][\A t \in Targets :
       (/\ MouseDown(t)
        /\ showColumnFilter \/ openMenuId # NoMenu
        /\ ~InFilter(t)
        /\ ~InMenu(t)) =>
         (~showColumnFilter' /\ openMenuId' = NoMenu)]_vars

\* A press elsewhere on the page found something open and closed it
C25_Witness ==
  /\ pointer.phase = "down"
  /\ pointer.target = Elsewhere
  /\ pointer.heard
  /\ ~showColumnFilter
  /\ openMenuId = NoMenu

C27_EmptyStatesAreDistinct ==
  Mounted =>
    /\ EntityTableBody = emptyMessage <=> Len(entities) = 0
    /\ EntityTableBody = emptySearchMessage <=>
         (Len(entities) > 0 /\ Len(filteredEntities) = 0)
    /\ EntityTableBody = TableRows <=> Len(filteredEntities) > 0

\* A search that matches none of the loaded entities
C27_Witness ==
  /\ Mounted
  /\ Len(entities) > 0
  /\ Len(filteredEntities) = 0
  /\ EntityTableBody = emptySearchMessage

\* The max lengths tried on the cells of the nombre column
CellLengths == {columns[i].maxLength : i \in 1..MaxColumns} \cup (1..MaxCellLen)

\* C28: for a column with max length n, a rendered text longer than n is
\* shown as its first n characters followed by the ellipsis, and a text of
\* length at most n is shown unchanged.
C28_CellTruncatedToMaxLength ==
  \A e \in ElemsOf(filteredEntities), n \in CellLengths :
    RenderedCell(e.nombre, n) =
      IF Len(e.nombre) > n
        THEN [i \in 1..(n + 3) |-> IF i <= n THEN e.nombre[i] ELSE "."]
        ELSE e.nombre

\* A row whose name is longer than a max length of one character
C28_Witness ==
  \E e \in ElemsOf(filteredEntities) :
    /\ Len(e.nombre) > 1
    /\ RenderedCell(e.nombre, 1) = <<"A", ".", ".", ".">>

\* ------------------------------------------------------------ concurrency
\* C29: when refreshes overlap, each load response that completes replaces
\* the collection with its own items, whatever the order the loads were
\* issued in, so the collection after all of them is the items of the
\* response that completed last; responses are never merged.
C29_LastCompletedLoadWins ==
  [][\A s \in Slots :
       (LoadResumes(s) /\ ops[s].resp.st = "ok") =>
         entities' = ops[s].resp.items]_vars

\* Two refreshes are in flight together and the server has answered them
\* with different lists
C29_Witness ==
  \E s, t \in Slots :
    /\ s # t
    /\ ops[s].pc = "load" /\ ops[s].resp.st = "ok"
    /\ ops[t].pc = "load" /\ ops[t].resp.st = "ok"
    /\ ops[s].resp.items # ops[t].resp.items

\* A submit is in flight in some slot
SubmitInFlight == \E t \in Slots : ops[t].h = "submit" /\ ops[t].pc \in {"call", "load"}

\* C30: loading does not guard the form: while a submit is in flight and
\* the page is rendered, a second submit is accepted, and every submit
\* issues its own create/update call with the draft of the form.
C30_SecondSubmitAcceptedWhileLoading ==
  /\ [](\A s \in Slots :
          (SubmitInFlight /\ loading /\ Len(entities) > 0 /\ showForm /\ FreeSlot(s))
            => ENABLED handleSubmit(s))
  /\ [][\A s \in Slots :
          handleSubmit(s) =>
            (/\ ops'[s].pc = "call"
             /\ ops'[s].ncall = 1
             /\ ops'[s].kind = SubmitCall.kind
             /\ ops'[s].data = formData)]_vars

\* Two submits wait for their own call, issued for the same draft
C30_Witness ==
  \E s, t \in Slots :
    /\ s # t
    /\ ops[s].h = "submit" /\ ops[s].pc = "call"
    /\ ops[t].h = "submit" /\ ops[t].pc = "call"
    /\ ops[s].kind = ops[t].kind
    /\ ops[s].data = ops[t].data
    /\ loading

\* ------------------------------------------------------------- lifecycle
\* C31: the collection is empty until the load issued on mount (the one
\* call outstanding then) is answered; afterwards the collection changes only
\* in the step that resumes a load answered with success, and then to the
\* items of that answer as a whole; the step that resumes a create, update
\* or delete call leaves the collection as it is.
C31_CollectionOnlyReplacedByLoad ==
  /\ [](ops[1].pc \in {"load", "done"})
  /\ [](ops[1].pc = "load" =>
          /\ ops[1].h = "load"
          /\ ops[1].nload = 1
          /\ ops[1].ncall = 0
          /\ entities = <<>>
          /\ \A s \in Slots \ {1} : ops[s].pc = "idle")
  /\ [][entities' # entities =>
          \E s \in Slots :
            /\ LoadResumes(s)
            /\ ops[s].resp.st = "ok"
            /\ entities' = ops[s].resp.items]_vars
  /\ [][\A s \in Slots : CallResumes(s) => entities' = entities]_vars

\* The server has deleted an entity and answered the delete call, and the
\* collection has changed before and still holds the deleted entity
C31_Witness ==
  \E s \in Slots :
    /\ ops[s].kind = "delete"
    /\ ops[s].pc = "load"
    /\ ops[s].callSt = "ok"
    /\ ops[s].id \in IdsOf(entities)
    /\ ops[s].id \notin IdsOf(db)

\* C32: a refresh that succeeds with the list the previous successful
\* refresh left in the collection (the server's data has not changed in
\* between) leaves the collection as the previous one left it.
C32_RefreshTwiceSameCollection ==
  [][\A s \in Slots :
       (LoadResumes(s) /\ ops[s].resp.st = "ok" /\ ops[s].resp.items = entities)
         => entities' = entities]_vars

\* A second refresh has been answered with the list the collection holds:
\* the call before it was refused by the server and changed nothing
C32_Witness ==
  \E s \in Slots :
    /\ ops[s].pc = "load"
    /\ ops[s].callSt = "fail"
    /\ ops[s].resp.st = "ok"
    /\ ops[s].resp.items = entities
    /\ Len(entities) > 0

\* C34: in every reachable state in which a load, create, update or delete
\* call is outstanding, loading is true.
C34_LoadingWhileAnyCallOutstanding ==
  InFlight # {} => loading

\* C35: every update call a submit issues names an id that is in the
\* collection at the moment of the submit.
C35_UpdateOnlyOfListedEntity ==
  [][\A s \in Slots :
       (Starts(s, "submit") /\ ops'[s].kind = "update")
         => ops'[s].id \in IdsOf(entities)]_vars

\* The form that is open is not the one the submit of slot s was sent from:
\* the submit was a create and an entity is bound now, or it was an update
\* and no entity or another entity is bound now (the binding changes only by
\* handleEdit, handleCancel and the end of a submit).
OtherFormSession(s) ==
  /\ showForm
  /\ \/ ops[s].kind = "create" /\ editingEntity # NoEntity
     \/ ops[s].kind = "update" /\ getEntityId(editingEntity) # ops[s].id

\* C36: when a submit completes while a form of another session is open,
\* that form stays open with its edit binding and its draft.
C36_SubmitEndClosesOnlyItsOwnForm ==
  [][\A s \in Slots :
       (LoadResumes(s) /\ ops[s].h = "submit" /\ OtherFormSession(s))
         => (/\ showForm'
             /\ editingEntity' = editingEntity
             /\ formData' = formData)]_vars

\* ---------------------------------------------------------- error handling
\* C38: when the create/update call of a submit has succeeded and the load
\* call of the refresh after it rejects, the step that ends the submit
\* closes the form, clears the edit binding and resets the draft, leaves the
\* collection as it was, and leaves the load-error message (not the
\* save-error message) in the error slot.
C38_SavedButRefreshFailed ==
  [][\A s \in Slots :
       (LoadResumes(s) /\ ops[s].h = "submit" /\ ops[s].callSt = "ok"
          /\ ops[s].resp.st = "reject")
         => (/\ showForm' = FALSE
             /\ editingEntity' = NoEntity
             /\ formData' = initialFormData
             /\ entities' = entities
             /\ error' = loadError
             /\ error' # saveError)]_vars

\* The server holds an entity the collection does not: the create was
\* saved, its refresh failed, the form is closed and the load error shown
C38_Witness ==
  /\ InFlight = {}
  /\ error = loadError
  /\ ~showForm
  /\ formData = initialFormData
  /\ Len(entities) > 0
  /\ \E id \in IdsOf(db) : id \notin IdsOf(entities)

\* ------------------------------------------------------- column visibility
\* C39: the visible columns are always among the configured column keys,
\* and after a toggle of a column, toggling the same column again gives the
\* set of visible columns there was before the first toggle.
C39_VisibleSubsetAndDoubleToggleRestores ==
  /\ [](visibleColumns \subseteq ColumnKeys)
  /\ [][\A k \in ColumnKeys :
          (ClickColumn /\ pointer.target.col = k)
            => toggleColumn(k)' = visibleColumns]_vars

\* A column has been hidden by a toggle and the press on its checkbox that
\* begins the second toggle has happened
C39_Witness ==
  /\ showColumnFilter
  /\ pointer.phase = "down"
  /\ pointer.target.kind = "column"
  /\ pointer.target.col \notin visibleColumns

\* ----------------------------------------------------------- Alquileres
\* C37: in the Alquileres screen, whenever the form is closed no entity is
\* bound for editing (so the form the 'Nuevo Alquiler' button opens is in
\* create mode and its submit calls createAlquiler).
C37_ClosedFormHasNoEditBinding ==
  (Mounted /\ ~showForm) => editingEntity = NoEntity

\* ------------------------------------------------------------------ routes
\* C33: a protected route gives its content only when a user record is in
\* local storage and redirects to /login otherwise; the routes of /login and
\* /register redirect to /dashboard whenever a user record is there; and in
\* every state reached by logins, logouts and navigation, a protected screen
\* is shown only with a stored user.
C33_ProtectedContentNeedsStoredUser ==
  /\ \A path \in ContentPaths \cup {"/"} :
       /\ RouteElement(localStorage, path).kind = "element" =>
            localStorage.user # NoItem
       /\ localStorage.user = NoItem =>
            RouteElement(localStorage, path) = Navigate("/login")
  /\ \A path \in PublicPaths :
       localStorage.user # NoItem =>
         RouteElement(localStorage, path) = Navigate("/dashboard")
  /\ screen \in ContentPaths => localStorage.user # NoItem

\* A logout has cleared the storage and shown the login screen while a
\* second logout call is still in flight
C33_Witness ==
  /\ localStorage.user = NoItem
  /\ screen = "/login"
  /\ \E i \in 1..Len(authCalls) : authCalls[i].kind = "logout"


====
